---- MODULE Spec2Model ----
(***************************************************************************)
(* Model of django_typomatic/management/commands/generate_ts.py: the       *)
(* resolver _get_serializers_for_module and the command's handle /         *)
(* _generate_ts orchestration.                                             *)
(*                                                                         *)
(* Python strings are sequences of one-character strings, so that          *)
(* str.split, str.startswith and the substring test `a in b` are computed  *)
(* the way Python computes them.                                           *)
(***************************************************************************)
EXTENDS Integers, Sequences, FiniteSets, TLC

\* ------------------------------------------------------------------ bounds
\* Longest --serializers list enumerated in Init.
MaxSpecs == 2

\* ------------------------------------------------------- string primitives
Dot == <<".">>
Slash == <<"/">>
Underscore == <<"_">>

\* str.startswith
StartsWith(s, p) == Len(s) >= Len(p) /\ SubSeq(s, 1, Len(p)) = p

\* the substring test `sub in s`
Contains(sub, s) ==
    \E i \in 0..(Len(s) - Len(sub)) : SubSeq(s, i + 1, i + Len(sub)) = sub

\* index of the first "." of s, 0 when there is none
FirstDot(s) ==
    IF \E i \in 1..Len(s) : s[i] = "."
    THEN CHOOSE i \in 1..Len(s) : s[i] = "." /\ \A j \in 1..(i - 1) : s[j] # "."
    ELSE 0

\* str.split('.')
RECURSIVE Split(_)
Split(s) ==
    LET i == FirstDot(s)
    IN  IF i = 0 THEN <<s>>
        ELSE <<SubSeq(s, 1, i - 1)>> \o Split(SubSeq(s, i + 1, Len(s)))

\* ------------------------------------------- the loaded process (environment)
\* Classes loaded in the process: __name__, __module__ and whether the class
\* is a subclass of rest_framework's BaseSerializer.
Classes ==
    ( "Invoice"  :> [name |-> <<"I","n","v","o","i","c","e","S","e","r","i","a","l","i","z","e","r">>,  module |-> <<"b","i","l","l","i","n","g",".","s","e","r","i","a","l","i","z","e","r","s">>, isSer |-> TRUE] )
 @@ ( "LineItem" :> [name |-> <<"L","i","n","e","I","t","e","m","S","e","r","i","a","l","i","z","e","r">>, module |-> <<"b","i","l","l","i","n","g",".","s","e","r","i","a","l","i","z","e","r","s">>, isSer |-> TRUE] )
 @@ ( "Hidden"   :> [name |-> <<"_","H","i","d","d","e","n","S","e","r","i","a","l","i","z","e","r">>,  module |-> <<"b","i","l","l","i","n","g",".","s","e","r","i","a","l","i","z","e","r","s">>, isSer |-> TRUE] )
 @@ ( "Money"    :> [name |-> <<"M","o","n","e","y">>,              module |-> <<"b","i","l","l","i","n","g",".","s","e","r","i","a","l","i","z","e","r","s">>, isSer |-> FALSE] )
 @@ ( "Internal" :> [name |-> <<"I","n","t","e","r","n","a","l","S","e","r","i","a","l","i","z","e","r">>, module |-> <<"b","i","l","l","i","n","g",".","s","e","r","i","a","l","i","z","e","r","s",".","i","n","t","e","r","n","a","l">>, isSer |-> TRUE] )
 @@ ( "Deep"     :> [name |-> <<"D","e","e","p","S","e","r","i","a","l","i","z","e","r">>,     module |-> <<"b","i","l","l","i","n","g",".","s","e","r","i","a","l","i","z","e","r","s",".","i","n","t","e","r","n","a","l",".","d","e","e","p">>, isSer |-> TRUE] )
 @@ ( "Shared"   :> [name |-> <<"S","h","a","r","e","d","S","e","r","i","a","l","i","z","e","r">>,   module |-> <<"c","o","m","m","o","n",".","s","e","r","i","a","l","i","z","e","r","s">>, isSer |-> TRUE] )
 @@ ( "Order"    :> [name |-> <<"O","r","d","e","r","S","e","r","i","a","l","i","z","e","r">>,    module |-> <<"s","h","o","p",".","s","e","r","i","a","l","i","z","e","r","s">>, isSer |-> TRUE] )
 @@ ( "Cart"     :> [name |-> <<"C","a","r","t","S","e","r","i","a","l","i","z","e","r">>,     module |-> <<"s","h","o","p",".","s","e","r","i","a","l","i","z","e","r","s">>, isSer |-> TRUE] )
 @@ ( "Plain"    :> [name |-> <<"P","l","a","i","n">>,              module |-> <<"e","m","p","t","y",".","s","e","r","i","a","l","i","z","e","r","s">>, isSer |-> FALSE] )
 @@ ( "NoneType" :> [name |-> <<"N","o","n","e","T","y","p","e">>,           module |-> <<"b","u","i","l","t","i","n","s">>, isSer |-> FALSE] )

ClassIds == DOMAIN Classes

Cls(id) == [kind |-> "class", id |-> id]
Other == [kind |-> "other", id |-> "none"]
Bind(n, o) == [name |-> n, obj |-> o]

\* A module object: its attributes in dir() order (dir sorts by code point).
Module(bindings) == [loaded |-> TRUE, bindings |-> bindings]

\* None, what sys.modules.get returns for a module that is not loaded:
\* dir(None) lists only dunder names.
NoneModule ==
    [loaded |-> FALSE,
     bindings |-> << Bind(<<"_","_","b","o","o","l","_","_">>, Other),
                     Bind(<<"_","_","c","l","a","s","s","_","_">>, Cls("NoneType")),
                     Bind(<<"_","_","d","o","c","_","_">>, Other) >>]

\* sys.modules of the running process.
sysModules ==
    ( <<"b","i","l","l","i","n","g">> :> Module(<< Bind(<<"_","_","n","a","m","e","_","_">>, Other),
                              Bind(<<"s","e","r","i","a","l","i","z","e","r","s">>, Other) >>) )
 @@ ( <<"b","i","l","l","i","n","g",".","s","e","r","i","a","l","i","z","e","r","s">> :>
        Module(<< Bind(<<"I","n","t","e","r","n","a","l","S","e","r","i","a","l","i","z","e","r">>, Cls("Internal")),
                  Bind(<<"I","n","v">>, Cls("Invoice")),
                  Bind(<<"I","n","v","o","i","c","e","S","e","r","i","a","l","i","z","e","r">>, Cls("Invoice")),
                  Bind(<<"L","i","n","e","I","t","e","m","S","e","r","i","a","l","i","z","e","r">>, Cls("LineItem")),
                  Bind(<<"M","o","n","e","y">>, Cls("Money")),
                  Bind(<<"S","h","a","r","e","d","S","e","r","i","a","l","i","z","e","r">>, Cls("Shared")),
                  Bind(<<"_","H","i","d","d","e","n","S","e","r","i","a","l","i","z","e","r">>, Cls("Hidden")),
                  Bind(<<"_","_","n","a","m","e","_","_">>, Other),
                  Bind(<<"s","e","r","i","a","l","i","z","e","r","s">>, Other) >>) )
 @@ ( <<"b","i","l","l","i","n","g",".","s","e","r","i","a","l","i","z","e","r","s",".","i","n","t","e","r","n","a","l">> :>
        Module(<< Bind(<<"D","e","e","p","S","e","r","i","a","l","i","z","e","r">>, Cls("Deep")),
                  Bind(<<"I","n","t","e","r","n","a","l","S","e","r","i","a","l","i","z","e","r">>, Cls("Internal")),
                  Bind(<<"I","n","v","o","i","c","e","S","e","r","i","a","l","i","z","e","r">>, Cls("Invoice")),
                  Bind(<<"_","_","n","a","m","e","_","_">>, Other) >>) )
 @@ ( <<"b","i","l","l","i","n","g",".","s","e","r","i","a","l","i","z","e","r","s",".","i","n","t","e","r","n","a","l",".","d","e","e","p">> :>
        Module(<< Bind(<<"D","e","e","p","S","e","r","i","a","l","i","z","e","r">>, Cls("Deep")),
                  Bind(<<"_","_","n","a","m","e","_","_">>, Other) >>) )
 @@ ( <<"c","o","m","m","o","n",".","s","e","r","i","a","l","i","z","e","r","s">> :>
        Module(<< Bind(<<"S","h","a","r","e","d","S","e","r","i","a","l","i","z","e","r">>, Cls("Shared")),
                  Bind(<<"_","_","n","a","m","e","_","_">>, Other) >>) )
 @@ ( <<"s","h","o","p">> :> Module(<< Bind(<<"O","r","d","e","r","S","e","r","i","a","l","i","z","e","r">>, Cls("Order")),
                           Bind(<<"_","_","n","a","m","e","_","_">>, Other),
                           Bind(<<"s","e","r","i","a","l","i","z","e","r","s">>, Other) >>) )
 @@ ( <<"s","h","o","p",".","s","e","r","i","a","l","i","z","e","r","s">> :>
        Module(<< Bind(<<"C","a","r","t","S","e","r","i","a","l","i","z","e","r">>, Cls("Cart")),
                  Bind(<<"O","r","d","e","r","S","e","r","i","a","l","i","z","e","r">>, Cls("Order")),
                  Bind(<<"_","_","n","a","m","e","_","_">>, Other),
                  Bind(<<"s","e","r","i","a","l","i","z","e","r","s">>, Other) >>) )
 @@ ( <<"e","m","p","t","y",".","s","e","r","i","a","l","i","z","e","r","s">> :>
        Module(<< Bind(<<"P","l","a","i","n">>, Cls("Plain")),
                  Bind(<<"_","_","n","a","m","e","_","_">>, Other),
                  Bind(<<"h","e","l","p","e","r">>, Other) >>) )

\* sys.modules.get(module_name, None)
SysModulesGet(module_name) ==
    IF module_name \in DOMAIN sysModules THEN sysModules[module_name] ELSE NoneModule

\* ------------------------------------------------------------- the resolver
\* Variant of KeepsBinding without the subclass test of line 31.
KeepsBindingAnyClass(b, module_name, serializer_name) ==
    /\ b.obj.kind = "class"
    /\ Contains(module_name, Classes[b.obj.id].module)
    /\ (serializer_name = <<>> \/ Classes[b.obj.id].name = serializer_name)

\* The test of lines 21-31 on one attribute of the module.
KeepsBinding(b, module_name, serializer_name) ==
    /\ b.obj.kind = "class"
    /\ Contains(module_name, Classes[b.obj.id].module)
    /\ (serializer_name = <<>> \/ Classes[b.obj.id].name = serializer_name)
    /\ Classes[b.obj.id].isSer

\* _get_serializers_for_module(module_name, serializer_name); a serializer_name
\* of None is the empty string, both are falsy on line 28.
GetSerializersForModule(module_name, serializer_name) ==
    LET module == SysModulesGet(module_name)
        IsPublic(b) == ~StartsWith(b.name, Underscore)
        possibly_serializers == SelectSeq(module.bindings, IsPublic)
        Keep(b) == KeepsBinding(b, module_name, serializer_name)
        kept == SelectSeq(possibly_serializers, Keep)
    IN  [k \in 1..Len(kept) |-> kept[k].obj.id]

\* The module _get_app_serializers scans: f'{app_name}.serializers'
AppSerializersModule(app_name) == app_name \o Dot \o <<"s","e","r","i","a","l","i","z","e","r","s">>

\* Command._get_app_serializers
GetAppSerializers(app_name) ==
    GetSerializersForModule(AppSerializersModule(app_name), <<>>)

\* Command._get_submodule_serializers
GetSubmoduleSerializers(submodule) == GetSerializersForModule(submodule, <<>>)

\* The arguments handle passes to _get_serializers_for_module for one
\* specifier string, by the number of its segments.
ScanArgs(serializer) ==
    LET user_input == Split(serializer)
    IN  IF Len(user_input) = 1
        THEN [module |-> AppSerializersModule(user_input[1]), name |-> <<>>]
        ELSE IF Len(user_input) = 2
        THEN [module |-> user_input[1], name |-> user_input[2]]
        ELSE [module |-> serializer, name |-> <<>>]

\* serializers_list of one iteration of handle's loop (lines 155-164)
ResolveSpecifier(serializer) ==
    LET args == ScanArgs(serializer)
    IN  GetSerializersForModule(args.module, args.name)

\* ------------------------------------------------------------ the registry
\* settings.BASE_DIR.parent
BaseDirParent == <<"/","p">>
VenvMarker == <<".","v","e","n","v">>

App(n, p) == [name |-> n, path |-> p]

\* apps.get_app_configs(): the alternatives of the installed-application
\* registry.
AppRegistries ==
    { << App(<<"b","i","l","l","i","n","g">>, <<"/","p","/","w","/","b","i","l","l","i","n","g">>),
         App(<<"r","e","s","t">>, <<"/","p","/",".","v","e","n","v","/","r","e","s","t">>),
         App(<<"a","d","m","i","n">>, <<"/","u","s","r","/","a","d","m","i","n">>) >>,
      << App(<<"e","m","p","t","y">>, <<"/","p","/","w","/","e","m","p","t","y">>),
         App(<<"g","h","o","s","t">>, <<"/","p","/","w","/","g","h","o","s","t">>),
         App(<<"s","h","o","p">>, <<"/","u","s","r","/","s","h","o","p">>) >> }

\* The test of line 146 that drops an application.
IsExternal(app) ==
    ~Contains(BaseDirParent, app.path) \/ Contains(VenvMarker, app.path)

\* ------------------------------------------------------------------ inputs
Specifiers ==
    { <<"b","i","l","l","i","n","g">>, <<"s","h","o","p">>, <<"e","m","p","t","y">>, <<"g","h","o","s","t">>,
      <<"b","i","l","l","i","n","g",".","I","n","v","o","i","c","e","S","e","r","i","a","l","i","z","e","r">>, <<"b","i","l","l","i","n","g",".","N","o","n","E","x","i","s","t","e","n","t">>,
      <<"s","h","o","p",".","O","r","d","e","r","S","e","r","i","a","l","i","z","e","r">>, <<"b","i","l","l","i","n","g",".","s","e","r","i","a","l","i","z","e","r","s",".","i","n","t","e","r","n","a","l">> }

Outputs == { <<".","/","t","y","p","e","s">>, <<"o","u","t">> }

StrItem(s) == [kind |-> "str", str |-> s, cls |-> "none"]
ClsItem(c) == [kind |-> "cls", str |-> <<>>, cls |-> c]

SpecifierLists ==
    UNION { [1..n -> {StrItem(s) : s \in Specifiers}] : n \in 0..MaxSpecs }

\* ------------------------------------------------------------- the emitter
\* The destination file: Path(output) / app_name / 'index.ts'. pathlib drops
\* a leading "./" of the output folder.
PathOf(folder) == IF StartsWith(folder, <<".","/">>) THEN SubSeq(folder, 3, Len(folder)) ELSE folder

OutputPath(folder, app_name) ==
    PathOf(folder) \o Slash \o app_name \o Slash \o <<"i","n","d","e","x",".","t","s">>

\* Variant of AppNameOf that keeps the whole __module__.
AppNameOfModule(serializer_class) == Classes[serializer_class].module

\* app_name of _generate_ts: serializer_class.__module__.split(".")[0]
AppNameOf(serializer_class) == Split(Classes[serializer_class].module)[1]

\* The line _generate_ts writes to stdout.
LabelOf(serializer_class) ==
    <<"[","+","]"," ">> \o Classes[serializer_class].module \o Dot \o Classes[serializer_class].name

EmptyMap == [x \in {} |-> <<>>]

MapGet(m, k) == IF k \in DOMAIN m THEN m[k] ELSE <<>>

MapPut(m, k, v) == [x \in (DOMAIN m) \cup {k} |-> IF x = k THEN v ELSE m[x]]

\* Variant of RegisterDeclaration that appends unconditionally.
RegisterDeclarationAppend(reg, serializer_class, context) ==
    MapPut(reg, context, Append(MapGet(reg, context), serializer_class))

\* The emitter's registration of a declaration under a context: the entries
\* of a context are keyed by declared name, a name already present is not
\* entered again.
RegisterDeclaration(reg, serializer_class, context) ==
    LET entries == MapGet(reg, context)
    IN  IF \E k \in 1..Len(entries) :
              Classes[entries[k]].name = Classes[serializer_class].name
        THEN MapPut(reg, context, entries)
        ELSE MapPut(reg, context, Append(entries, serializer_class))

\* ------------------------------------------------------------------- state
VARIABLES
    serializers,      \* handle's list: the --serializers strings, grown by --all
    all,              \* the --all flag
    output,           \* the --output folder
    appConfigs,       \* apps.get_app_configs()
    enumerated,       \* whether get_app_configs has been called
    appIdx,           \* position of the loop of line 144
    idx,              \* position of the loop of line 151
    serializers_list, \* the classes resolved for the current specifier
    sIdx,             \* position of the loop of line 166
    scans,            \* the calls of _get_serializers_for_module, in order
    calls,            \* the calls of the emitter (ts_interface, generate_ts), in order
    registry,         \* the emitter's entries per context
    files,            \* the files generate_ts has written, by path
    stdout,           \* the lines written to stdout
    pc,               \* position of the command
    err               \* the exception that ended the command, "" when none

vars == << serializers, all, output, appConfigs, enumerated, appIdx, idx,
           serializers_list, sIdx, scans, calls, registry, files, stdout, pc, err >>

Scan(via, spec, module, name, result) ==
    [via |-> via, spec |-> spec, module |-> module, name |-> name, result |-> result]

Call(op, serializer_class, context, path, ok) ==
    [op |-> op, cls |-> serializer_class, context |-> context, path |-> path, ok |-> ok]

Init ==
    /\ serializers \in SpecifierLists
    /\ all \in BOOLEAN
    /\ output \in Outputs
    /\ appConfigs \in AppRegistries
    /\ enumerated = FALSE
    /\ appIdx = 1
    /\ idx = 1
    /\ serializers_list = <<>>
    /\ sIdx = 1
    /\ scans = <<>>
    /\ calls = <<>>
    /\ registry = EmptyMap
    /\ files = EmptyMap
    /\ stdout = <<>>
    /\ pc = "start"
    /\ err = ""

\* ------------------------------------------------------------------ handle
\* Variant of BothGiven that never rejects.
BothGivenIgnored(all_flag, given) == FALSE

\* the test of line 140
BothGiven(all_flag, given) == all_flag /\ given # <<>>

\* lines 140-141: --all together with --serializers
RaiseCommandError ==
    /\ pc = "start"
    /\ BothGiven(all, serializers)
    /\ pc' = "error"
    /\ err' = "CommandError"
    /\ UNCHANGED << serializers, all, output, appConfigs, enumerated, appIdx, idx,
                    serializers_list, sIdx, scans, calls, registry, files, stdout >>

\* lines 143-144: --all, the registry is enumerated
BeginAll ==
    /\ pc = "start"
    /\ ~BothGiven(all, serializers)
    /\ all
    /\ enumerated' = TRUE
    /\ pc' = IF Len(appConfigs) = 0 THEN "loop" ELSE "expand"
    /\ UNCHANGED << serializers, all, output, appConfigs, appIdx, idx,
                    serializers_list, sIdx, scans, calls, registry, files, stdout, err >>

\* line 143 with --all unset
BeginExplicit ==
    /\ pc = "start"
    /\ ~BothGiven(all, serializers)
    /\ ~all
    /\ pc' = "loop"
    /\ UNCHANGED << serializers, all, output, appConfigs, enumerated, appIdx, idx,
                    serializers_list, sIdx, scans, calls, registry, files, stdout, err >>

\* lines 144-149: one installed application
ExpandApp ==
    /\ pc = "expand"
    /\ appIdx <= Len(appConfigs)
    /\ LET app == appConfigs[appIdx]
           found == GetAppSerializers(app.name)
       IN  IF IsExternal(app)
           THEN UNCHANGED << serializers, scans >>
           ELSE /\ serializers' = serializers \o [k \in 1..Len(found) |-> ClsItem(found[k])]
                /\ scans' = Append(scans, Scan("all", app.name,
                                               AppSerializersModule(app.name), <<>>, found))
    /\ appIdx' = appIdx + 1
    /\ pc' = IF appIdx = Len(appConfigs) THEN "loop" ELSE "expand"
    /\ UNCHANGED << all, output, appConfigs, enumerated, idx,
                    serializers_list, sIdx, calls, registry, files, stdout, err >>

\* line 151: the list is exhausted, handle returns
LoopEnd ==
    /\ pc = "loop"
    /\ idx > Len(serializers)
    /\ pc' = "done"
    /\ UNCHANGED << serializers, all, output, appConfigs, enumerated, appIdx, idx,
                    serializers_list, sIdx, scans, calls, registry, files, stdout, err >>

\* line 152 on an element that is a class, not a string: a serializer class
\* has no attribute split
SplitRaises ==
    /\ pc = "loop"
    /\ idx <= Len(serializers)
    /\ serializers[idx].kind = "cls"
    /\ pc' = "error"
    /\ err' = "AttributeError"
    /\ UNCHANGED << serializers, all, output, appConfigs, enumerated, appIdx, idx,
                    serializers_list, sIdx, scans, calls, registry, files, stdout >>

\* lines 152-164: one specifier is resolved
Resolve ==
    /\ pc = "loop"
    /\ idx <= Len(serializers)
    /\ serializers[idx].kind = "str"
    /\ LET serializer == serializers[idx].str
           args == ScanArgs(serializer)
           found == ResolveSpecifier(serializer)
       IN  /\ serializers_list' = found
           /\ scans' = Append(scans, Scan("loop", serializer, args.module, args.name, found))
           /\ pc' = IF found = <<>> THEN "loop" ELSE "register"
    /\ idx' = idx + 1
    /\ sIdx' = 1
    /\ UNCHANGED << serializers, all, output, appConfigs, enumerated, appIdx,
                    calls, registry, files, stdout, err >>

\* ------------------------------------------------------------ _generate_ts
\* lines 121-123: ts_interface(context=app_name)(serializer_class)
TsInterface ==
    /\ pc = "register"
    /\ LET serializer_class == serializers_list[sIdx]
           app_name == AppNameOf(serializer_class)
       IN  /\ calls' = Append(calls, Call("register", serializer_class, app_name, <<>>, TRUE))
           /\ registry' = RegisterDeclaration(registry, serializer_class, app_name)
    /\ pc' = "flush"
    /\ UNCHANGED << serializers, all, output, appConfigs, enumerated, appIdx, idx,
                    serializers_list, sIdx, scans, files, stdout, err >>

\* line 123 when the emitter raises
TsInterfaceRaises ==
    /\ pc = "register"
    /\ LET serializer_class == serializers_list[sIdx]
           app_name == AppNameOf(serializer_class)
       IN  calls' = Append(calls, Call("register", serializer_class, app_name, <<>>, FALSE))
    /\ pc' = "error"
    /\ err' = "EmitterError"
    /\ UNCHANGED << serializers, all, output, appConfigs, enumerated, appIdx, idx,
                    serializers_list, sIdx, scans, registry, files, stdout >>

\* Variant of GenerateTs that writes a context's file only the first time.
GenerateTsOncePerContext ==
    /\ pc = "flush"
    /\ LET serializer_class == serializers_list[sIdx]
           app_name == AppNameOf(serializer_class)
           output_path == OutputPath(output, app_name)
       IN  IF output_path \in DOMAIN files
           THEN UNCHANGED << calls, files >>
           ELSE /\ calls' = Append(calls, Call("flush", serializer_class, app_name, output_path, TRUE))
                /\ files' = MapPut(files, output_path, MapGet(registry, app_name))
    /\ pc' = "label"
    /\ UNCHANGED << serializers, all, output, appConfigs, enumerated, appIdx, idx,
                    serializers_list, sIdx, scans, registry, stdout, err >>

\* Variant of GenerateTs that leaves the context argument to its default.
GenerateTsDefaultContext ==
    /\ pc = "flush"
    /\ LET serializer_class == serializers_list[sIdx]
           app_name == AppNameOf(serializer_class)
           output_path == OutputPath(output, app_name)
       IN  /\ calls' = Append(calls, Call("flush", serializer_class, <<"d","e","f","a","u","l","t">>, output_path, TRUE))
           /\ files' = MapPut(files, output_path, MapGet(registry, <<"d","e","f","a","u","l","t">>))
    /\ pc' = "label"
    /\ UNCHANGED << serializers, all, output, appConfigs, enumerated, appIdx, idx,
                    serializers_list, sIdx, scans, registry, stdout, err >>

\* lines 125-136: generate_ts(output_path, context=app_name, ...)
GenerateTs ==
    /\ pc = "flush"
    /\ LET serializer_class == serializers_list[sIdx]
           app_name == AppNameOf(serializer_class)
           output_path == OutputPath(output, app_name)
       IN  /\ calls' = Append(calls, Call("flush", serializer_class, app_name, output_path, TRUE))
           /\ files' = MapPut(files, output_path, MapGet(registry, app_name))
    /\ pc' = "label"
    /\ UNCHANGED << serializers, all, output, appConfigs, enumerated, appIdx, idx,
                    serializers_list, sIdx, scans, registry, stdout, err >>

\* lines 127-136 when the emitter raises (an unwritable path)
GenerateTsRaises ==
    /\ pc = "flush"
    /\ LET serializer_class == serializers_list[sIdx]
           app_name == AppNameOf(serializer_class)
           output_path == OutputPath(output, app_name)
       IN  calls' = Append(calls, Call("flush", serializer_class, app_name, output_path, FALSE))
    /\ pc' = "error"
    /\ err' = "EmitterError"
    /\ UNCHANGED << serializers, all, output, appConfigs, enumerated, appIdx, idx,
                    serializers_list, sIdx, scans, registry, files, stdout >>

\* line 137, and the step of the loop of line 166
WriteLabel ==
    /\ pc = "label"
    /\ stdout' = Append(stdout, LabelOf(serializers_list[sIdx]))
    /\ sIdx' = sIdx + 1
    /\ pc' = IF sIdx < Len(serializers_list) THEN "register" ELSE "loop"
    /\ UNCHANGED << serializers, all, output, appConfigs, enumerated, appIdx, idx,
                    serializers_list, scans, calls, registry, files, err >>

Next ==
    \/ RaiseCommandError
    \/ BeginAll
    \/ BeginExplicit
    \/ ExpandApp
    \/ LoopEnd
    \/ SplitRaises
    \/ Resolve
    \/ TsInterface
    \/ TsInterfaceRaises
    \/ GenerateTs
    \/ GenerateTsRaises
    \/ WriteLabel

Spec == Init /\ [][Next]_vars

\* ============================================================== properties
Range(f) == { f[k] : k \in DOMAIN f }

RECURSIVE Flatten(_)
Flatten(ss) == IF ss = <<>> THEN <<>> ELSE Head(ss) \o Flatten(Tail(ss))

\* The bindings of a loaded module whose name has no leading underscore.
PublicBindings(N) ==
    { b \in Range(SysModulesGet(N).bindings) : SysModulesGet(N).loaded /\ b.name[1] # "_" }

\* The schema classes bound in namespace N and defined there (__module__ = N),
\* restricted to the declared name nm unless nm is empty.
DefinedIn(N, nm) ==
    { c \in ClassIds :
        /\ Classes[c].isSer
        /\ Classes[c].module = N
        /\ nm = <<>> \/ Classes[c].name = nm
        /\ \E b \in PublicBindings(N) : b.obj = Cls(c) }

LoopScans == SelectSeq(scans, LAMBDA sc : sc.via = "loop")

Segments(sc) == Len(Split(sc.spec))

\* C1: a two-segment specifier ns.Name yields exactly the schema classes
\* defined in ns.serializers, the namespace the specifier ns scans, whose
\* declared name is Name: {Name} when there is one, nothing otherwise.
C1_TwoSegmentResolvesInAppSerializers ==
    \A k \in DOMAIN LoopScans :
        LET sc == LoopScans[k]
            parts == Split(sc.spec)
        IN  Len(parts) = 2 =>
              Range(sc.result) = DefinedIn(parts[1] \o Dot \o <<"s","e","r","i","a","l","i","z","e","r","s">>, parts[2])

\* C2: every class a scan of namespace N keeps is defined in N itself, and a
\* one-segment specifier yields exactly the schema classes defined in
\* <specifier>.serializers.
C2_KeepsOnlyClassesDefinedInScannedNamespace ==
    \A k \in DOMAIN scans :
        /\ \A c \in Range(scans[k].result) :
              Classes[c].isSer /\ Classes[c].module = scans[k].module
        /\ (scans[k].via = "loop" /\ Segments(scans[k]) = 1) =>
              Range(scans[k].result) = DefinedIn(scans[k].module, <<>>)

\* The declarations --all stands for: those of the installed applications
\* that pass the location filter, each resolved as a one-segment specifier.
AllExpected ==
    LET kept == SelectSeq(appConfigs, LAMBDA app : ~IsExternal(app))
    IN  Flatten([k \in DOMAIN kept |-> ResolveSpecifier(kept[k].name)])

\* C3: with --all the run does not end in an error of its own, and a
\* completed run has registered the declarations of every surviving
\* application as if its name had been given as a specifier.
C3_AllResolvesSurvivingPackages ==
    enumerated =>
        /\ err # "AttributeError"
        /\ pc = "done" =>
              [k \in DOMAIN SelectSeq(calls, LAMBDA c : c.op = "register") |->
                  SelectSeq(calls, LAMBDA c : c.op = "register")[k].cls] = AllExpected

Contexts == { calls[k].context : k \in DOMAIN calls }

Count(op, context) ==
    Cardinality({ k \in DOMAIN calls : calls[k].op = op /\ calls[k].context = context })

\* C4 as stated: a context is flushed exactly once in a run, however many
\* declarations it receives.
C4_FlushedExactlyOnce ==
    pc = "done" => \A context \in Contexts : Count("flush", context) = 1

\* C4 amended: a context is flushed once per declaration processed for it; a
\* flush never comes before its registration, and in a completed run the
\* flushes of a context are as many as its registrations.
C4_FlushedOncePerDeclaration ==
    \A context \in Contexts :
        /\ Count("flush", context) <= Count("register", context)
        /\ Count("register", context) <= Count("flush", context) + 1
        /\ pc = "done" =>
              /\ Count("flush", context) = Count("register", context)
              /\ Count("flush", context) >= 1

C4_Witness ==
    /\ pc = "done"
    /\ \E context \in Contexts : Count("flush", context) >= 2

\* Whether the invocation gave --serializers strings.
ExplicitGiven == \E k \in DOMAIN serializers : serializers[k].kind = "str"

\* C5: --all together with a non-empty --serializers ends in CommandError
\* before the registry is enumerated, any namespace scanned, the emitter
\* called, a label written or a file written.
C5_MutualExclusion ==
    (all /\ ExplicitGiven) =>
        /\ pc \in {"start", "error"}
        /\ pc = "error" => err = "CommandError"
        /\ ~enumerated
        /\ scans = <<>>
        /\ calls = <<>>
        /\ stdout = <<>>
        /\ DOMAIN files = {}
        /\ DOMAIN registry = {}

C5_Witness == all /\ ExplicitGiven /\ pc = "error" /\ err = "CommandError"

Occurrences(seq, x) == Cardinality({ k \in DOMAIN seq : seq[k] = x })

\* C6: a declaration registered any number of times has one entry in its
\* context and in the file written for it.
C6_OneEntryPerDeclaration ==
    /\ \A context \in DOMAIN registry :
          \A c \in ClassIds : Occurrences(registry[context], c) <= 1
    /\ \A path \in DOMAIN files :
          \A c \in ClassIds : Occurrences(files[path], c) <= 1
    /\ \A k \in DOMAIN calls :
          (calls[k].op = "flush" /\ calls[k].ok) =>
              Occurrences(MapGet(files, calls[k].path), calls[k].cls) = 1

C6_Witness ==
    /\ pc = "done"
    /\ \E i, j \in DOMAIN calls :
          /\ i < j
          /\ calls[i].op = "register" /\ calls[j].op = "register"
          /\ calls[i].cls = calls[j].cls
          /\ \E path \in DOMAIN files : Occurrences(files[path], calls[i].cls) = 1

\* s is the first dot-separated segment of the dotted name m
IsFirstSegment(s, m) ==
    /\ \A i \in DOMAIN s : s[i] # "."
    /\ m = s \/ (Len(m) > Len(s) /\ SubSeq(m, 1, Len(s) + 1) = s \o Dot)

\* C7: every emitter call for a declaration uses the first segment of the
\* declaration's defining namespace as context, the file flushed is
\* <output>/<context>/index.ts, and declarations sharing that first segment
\* share context and file.
C7_GroupedByFirstSegment ==
    /\ \A k \in DOMAIN calls :
          /\ IsFirstSegment(calls[k].context, Classes[calls[k].cls].module)
          /\ calls[k].op = "flush" =>
                calls[k].path = PathOf(output) \o Slash \o calls[k].context \o <<"/","i","n","d","e","x",".","t","s">>
    /\ \A i, j \in DOMAIN calls :
          (\E s \in {calls[i].context, calls[j].context} :
               /\ IsFirstSegment(s, Classes[calls[i].cls].module)
               /\ IsFirstSegment(s, Classes[calls[j].cls].module)) =>
              /\ calls[i].context = calls[j].context
              /\ (calls[i].op = "flush" /\ calls[j].op = "flush") => calls[i].path = calls[j].path

C7_Witness ==
    /\ pc = "done"
    /\ \E i, j \in DOMAIN LoopScans :
          /\ Segments(LoopScans[i]) = 1 /\ Segments(LoopScans[j]) >= 3
          /\ LoopScans[i].result # <<>> /\ LoopScans[j].result # <<>>
    /\ \E i, j \in DOMAIN calls :
          /\ calls[i].op = "flush" /\ calls[j].op = "flush"
          /\ Classes[calls[i].cls].module # Classes[calls[j].cls].module
          /\ calls[i].path = calls[j].path

\* The namespace the specifier makes the resolver scan is not loaded, or no
\* public name of it is bound to a schema class of the requested name.
Miss(serializer) ==
    LET args == ScanArgs(serializer)
    IN  \/ args.module \notin DOMAIN sysModules
        \/ \A b \in PublicBindings(args.module) :
              ~ /\ b.obj.kind = "class"
                /\ Classes[b.obj.id].isSer
                /\ args.name = <<>> \/ Classes[b.obj.id].name = args.name

\* C8: a specifier that misses resolves to nothing without an error, causes
\* no emitter call, label or file, and the loop goes on to the next
\* specifier; a run that is not ended by an error has resolved every one.
C8_MissAbsorbed ==
    /\ [][ (pc = "loop" /\ idx <= Len(serializers) /\ serializers[idx].kind = "str"
            /\ Miss(serializers[idx].str)) =>
              /\ pc' = "loop" /\ err' = ""
              /\ idx' = idx + 1
              /\ serializers_list' = <<>>
              /\ calls' = calls /\ stdout' = stdout /\ files' = files
              /\ registry' = registry ]_vars
    /\ [](pc = "done" => idx = Len(serializers) + 1 /\ Len(LoopScans) = Len(serializers))

C8_Witness ==
    /\ pc = "done"
    /\ \E i, j \in DOMAIN LoopScans :
          /\ i < j
          /\ Miss(LoopScans[i].spec) /\ LoopScans[i].result = <<>>
          /\ LoopScans[j].result # <<>>
    /\ stdout # <<>>

\* C9: a specifier of three or more segments scans the namespace named by the
\* whole specifier, with no name filter, and yields exactly the schema classes
\* defined in that namespace.
C9_NestedPathYieldsOwnDeclarations ==
    \A k \in DOMAIN LoopScans :
        Segments(LoopScans[k]) >= 3 =>
            /\ LoopScans[k].module = LoopScans[k].spec
            /\ LoopScans[k].name = <<>>
            /\ Range(LoopScans[k].result) = DefinedIn(LoopScans[k].spec, <<>>)

\* The declarations of the run in input order: specifier by specifier, each
\* in the order the resolver returns.
ExpectedOrder ==
    Flatten([k \in DOMAIN serializers |->
                IF serializers[k].kind = "str" THEN ResolveSpecifier(serializers[k].str) ELSE <<>>])

Registered == SelectSeq(calls, LAMBDA c : c.op = "register")
Flushed == SelectSeq(calls, LAMBDA c : c.op = "flush" /\ c.ok)

IsPrefix(p, q) == Len(p) <= Len(q) /\ SubSeq(q, 1, Len(p)) = p

\* C10: emitter calls come in pairs register, flush of the same declaration
\* and context, in input order; only the last call can have failed; at most
\* one registration awaits its flush; the labels are those of the declarations
\* whose flush returned; in a completed run the last call of every context is
\* a flush.
C10_RegisterFlushLabelInOrder ==
    /\ \A k \in DOMAIN calls :
          /\ calls[k].op = (IF k % 2 = 1 THEN "register" ELSE "flush")
          /\ k % 2 = 0 => /\ calls[k].cls = calls[k - 1].cls
                          /\ calls[k].context = calls[k - 1].context
          /\ ~calls[k].ok => k = Len(calls) /\ pc = "error"
    /\ Len(Registered) - Len(Flushed) \in {0, 1}
    /\ IsPrefix([k \in DOMAIN Registered |-> Registered[k].cls], ExpectedOrder)
    /\ pc = "done" /\ ~all => Len(Registered) = Len(ExpectedOrder)
    /\ LET labels == [k \in DOMAIN Flushed |-> LabelOf(Flushed[k].cls)]
       IN  IF pc = "label"
           THEN stdout = SubSeq(labels, 1, Len(labels) - 1)
           ELSE stdout = labels
    /\ pc = "done" =>
          \A context \in Contexts :
              LET last == CHOOSE k \in DOMAIN calls :
                              /\ calls[k].context = context
                              /\ \A j \in DOMAIN calls : calls[j].context = context => j <= k
              IN  calls[last].op = "flush" /\ calls[last].ok

C10_Witness ==
    /\ pc = "done"
    /\ Len(stdout) >= 3
    /\ Cardinality(Contexts) >= 2

====
